---- MODULE Spec2Model ----
(***************************************************************************)
(* The main process of the sticky-notes application (src/src/main/main.ts, *)
(* class StickyNotesApp): the notes file, the window registry and the      *)
(* asynchronous IPC / window-event handlers that read and rewrite the      *)
(* file.  Every handler is an async function: it runs synchronously up to  *)
(* its first await (the file read), resumes when the read has finished,    *)
(* modifies the array it read, issues the write, and resumes once more     *)
(* when the write has finished.  Handlers of different requests interleave *)
(* at these awaits.                                                        *)
(***************************************************************************)
EXTENDS Integers, Sequences, FiniteSets, Bags, TLC

VARIABLES
  fileExists,   \* fs.existsSync(notesFilePath)
  fileNotes,    \* the array stored in notes.json (<<>> while the file is missing)
  windows,      \* this.windows: note id -> window
  tasks,        \* the handler invocations in flight (a bag of them)
  clock,        \* the value the last new Date() returned
  usedIds,      \* the identifiers that exist anywhere (generateId never repeats one)
  quitting,     \* app.quit() has been called
  exited,       \* the process has terminated
  budget,       \* external events still allowed (model bound)
  deleted,      \* history: ids whose delete-note completed, no save-note issued since
  owed,         \* history: ids whose window moved while the note was stored, no
                \* save-note or delete-note for the id issued since
  persistCount, \* history: writes of saveAllNotes since shutdown began
  lastOp,       \* history: the step taken last
  unlisted,     \* the windows on screen that this.windows does not hold
  sent,         \* the messages webContents.send has delivered to each window
  uiNotes,      \* renderer: the ids in the `notes` state of App
  uiPinned,     \* renderer: the ids whose note has alwaysOnTop = true in `notes`
  saveTimeouts, \* renderer: the `saveTimeouts` state, note id -> timer (0: no entry)
  timers,       \* renderer: the setTimeout timers that have not fired yet
  calls,        \* ipcRenderer.invoke calls whose promise is not settled yet
  answered,     \* history: the channels answered so far, with the outcome
  latest,       \* history: the last edit made to each note
  edits,        \* history: the number of edits made (an edit's timer has its number)
  docExists,    \* the notes file as text: fs.existsSync(notesFilePath)
  docText,      \* the notes file as text: its content
  origin,       \* history: the array whose JSON.stringify the text is, or begins
  result        \* what the last loadNotes() / loadNotesSync() call came to

\* the state of the renderer
uiVars == <<uiNotes, uiPinned, saveTimeouts, timers, calls, answered, latest, edits>>

\* the notes file as text and the outcome of reading it
docVars == <<docExists, docText, origin, result>>

\* what the steps of the main process leave alone, but for the few that say
\* otherwise
others == <<sent, uiVars, docVars, unlisted>>

vars == <<fileExists, fileNotes, windows, tasks, clock, usedIds, quitting, exited,
          budget, deleted, owed, persistCount, lastOp, others>>

----------------------------------------------------------------------------
(* Bounds of the model *)

MaxClock == 2
MaxTasks == 2
MaxOps == 2
MaxLiveOps == 1
MaxUiOps == 4
MaxDocLen == 3
MaxRunOps == 3
MaxRegOps == 3

(* Program constants *)

DefaultWidth == 300
DefaultHeight == 200
MinWidth == 200
MinHeight == 100

Ids == {"n1", "n2"}

\* the identifiers the renderer makes for its notes: Date.now().toString()
UiIds == {"u1", "u2"}
Contents == {"b"}

\* window.getBounds() values the window system can report
BoundsSet ==
  { [x |-> 100, y |-> 100, width |-> 300, height |-> 200],
    [x |-> 250, y |-> 300, width |-> 400, height |-> 250] }

\* where the window system puts a window created with x/y undefined
PlacedX == 100
PlacedY == 100

BoundsFields == {"x", "y", "width", "height"}

----------------------------------------------------------------------------
(* Pure helpers *)

\* notes.findIndex(n => n.id === id); 0 stands for -1
RECURSIVE FindFrom(_, _, _)
FindFrom(notes, id, i) ==
  IF i > Len(notes) THEN 0
  ELSE IF notes[i].id = id THEN i
  ELSE FindFrom(notes, id, i + 1)

FindIndex(notes, id) == FindFrom(notes, id, 1)

NoteIds(notes) == { notes[i].id : i \in 1..Len(notes) }

\* loadNotes / loadNotesSync: the parsed file, [] when it does not exist
LoadNotes == IF fileExists THEN fileNotes ELSE <<>>

\* { ...existing, ...note, updated: now }
MergeNote(existing, note, now) ==
  [ f \in (DOMAIN existing) \cup (DOMAIN note) \cup {"updated"} |->
      IF f = "updated" THEN now
      ELSE IF f \in DOMAIN note THEN note[f]
      ELSE existing[f] ]

\* note.created = now1; note.updated = now2
StampNew(note, now1, now2) ==
  [ f \in (DOMAIN note) \cup {"created", "updated"} |->
      IF f = "created" THEN now1
      ELSE IF f = "updated" THEN now2
      ELSE note[f] ]

\* missing field reads as undefined, which is falsy like 0
Field(note, f) == IF f \in DOMAIN note THEN note[f] ELSE 0

\* v || d
OrDefault(v, d) == IF v = 0 THEN d ELSE v

\* notes[i].x = bounds.x; ... ; notes[i].updated = now
SetBounds(rec, b, now) ==
  [ f \in (DOMAIN rec) \cup BoundsFields \cup {"updated"} |->
      IF f = "updated" THEN now
      ELSE IF f \in BoundsFields THEN b[f]
      ELSE rec[f] ]

HasBounds(rec, b) ==
  /\ BoundsFields \subseteq DOMAIN rec
  /\ \A f \in BoundsFields : rec[f] = b[f]

----------------------------------------------------------------------------
(* What each handler does to the array it loaded *)

\* saveNote without the findIndex test: every save pushes
SaveNoteApplyAlwaysPush(notes, note, now1, now2) ==
  Append(notes, StampNew(note, now1, now2))

\* saveNote, after the load
SaveNoteApply(notes, note, now1, now2) ==
  LET existingIndex == FindIndex(notes, note.id) IN
  IF existingIndex # 0
  THEN [notes EXCEPT ![existingIndex] = MergeNote(notes[existingIndex], note, now1)]
  ELSE Append(notes, StampNew(note, now1, now2))

\* deleteNote, after the load: notes.filter(n => n.id !== noteId)
DeleteNoteApply(notes, noteId) ==
  SelectSeq(notes, LAMBDA n : n.id # noteId)

\* saveWindowState, after the load (applies when noteIndex !== -1)
SaveWindowStateApply(notes, noteId, b, now) ==
  LET noteIndex == FindIndex(notes, noteId) IN
  IF noteIndex # 0
  THEN [notes EXCEPT ![noteIndex] = SetBounds(notes[noteIndex], b, now)]
  ELSE notes

\* saveAllNotes, after the load: the loop over this.windows
SaveAllApply(notes, ws, now) ==
  [ i \in 1..Len(notes) |->
      LET id == notes[i].id IN
      IF /\ id \in DOMAIN ws
         /\ ws[id].state # "destroyed"
         /\ FindIndex(notes, id) = i
      THEN SetBounds(notes[i], ws[id].bounds, now)
      ELSE notes[i] ]

\* getNote: the result as a sequence of at most one record (<<>> is undefined)
GetNote(noteId) ==
  LET notes == LoadNotes
      i == FindIndex(notes, noteId)
  IN IF i = 0 THEN <<>> ELSE <<notes[i]>>

----------------------------------------------------------------------------
(* Windows *)

\* createNewNote() called without a note
NoNote == [id |-> "-"]

\* the BrowserWindow options of createNewNote
WindowOptions(note) ==
  [ width  |-> OrDefault(Field(note, "width"), DefaultWidth),
    height |-> OrDefault(Field(note, "height"), DefaultHeight),
    x      |-> OrDefault(Field(note, "x"), PlacedX),
    y      |-> OrDefault(Field(note, "y"), PlacedY) ]

\* createNewNote: this.windows.set(noteId, window)
CreateNewNote(ws, noteId, note) ==
  [ i \in (DOMAIN ws) \cup {noteId} |->
      IF i = noteId
      THEN [bounds |-> WindowOptions(note), state |-> "open",
            existing |-> note # NoNote]
      ELSE ws[i] ]

\* a 'closed' handler that empties the registry: this.windows.clear()
ClosedHandlerClear(ws, noteId) ==
  [ i \in {} |-> ws[i] ]

\* the 'closed' handler: this.windows.delete(noteId)
ClosedHandler(ws, noteId) ==
  [ i \in (DOMAIN ws) \ {noteId} |-> ws[i] ]

\* window.close(): the window is destroyed, its 'closed' event is pending
CloseWindowIn(ws, noteId) ==
  [ws EXCEPT ![noteId].state = "destroyed"]

\* deleteNote that leaves the window alone
CloseIfOpenNever(ws, noteId) == ws

\* deleteNote, after the write: close the window if registered and not destroyed
CloseIfOpen(ws, noteId) ==
  IF noteId \in DOMAIN ws /\ ws[noteId].state # "destroyed"
  THEN CloseWindowIn(ws, noteId)
  ELSE ws

\* loadAndDisplayNotes, after the load: notes.forEach(note => createNewNote(note))
RECURSIVE DisplayNotes(_, _, _)
DisplayNotes(ws, notes, i) ==
  IF i > Len(notes) THEN ws
  ELSE DisplayNotes(CreateNewNote(ws, notes[i].id, notes[i]), notes, i + 1)

\* this.windows.set(noteId, window) for each note displayed: the windows that
\* were registered under these identifiers are on screen still, without an entry
Overwritten(ws, notes) ==
  { [id |-> id, state |-> ws[id].state] : id \in NoteIds(notes) \cap DOMAIN ws }

OpenIds == { id \in DOMAIN windows : windows[id].state = "open" }

----------------------------------------------------------------------------
(* Handler invocations in flight *)

Idle == [pc |-> "idle"]

\* lastOp after a step no property looks back at
NoOp == [op |-> "-", id |-> "-"]

NoBounds == [x |-> 0, y |-> 0, width |-> 0, height |-> 0]

NewTask(kind, id, note, b) ==
  [pc |-> "load", kind |-> kind, id |-> id, note |-> note, bounds |-> b, local |-> <<>>]

Running == ~exited

\* the invocations in flight, and room for `n` more within the model's bound
Busy == BagToSet(tasks)

Room(n) == BagCardinality(tasks) + n <= MaxTasks

InFlight(kind, id) ==
  \E tk \in Busy : tk.kind = kind /\ tk.id = id

\* a handler is called / goes from one await to the next / ends
Started(tk) == IF tk = Idle THEN tasks ELSE tasks (+) SetToBag({tk})

Advanced(old, new) == Started(new) (-) SetToBag({old})

\* new Date(): time never runs backwards, and may have moved on since the last call
Stamps(last) == IF last < MaxClock THEN {last, last + 1} ELSE {last}

\* The values <<now1, now2>> that the calls of new Date() return to a handler that
\* resumes with `snap`: saveNote's insert branch calls it twice (for created, then
\* for updated), every other branch that stamps calls it once, and a handler
\* that stamps nothing leaves the clock alone.
StampPairs(tk, snap, ws) ==
  CASE tk.kind = "save" /\ FindIndex(snap, tk.id) = 0 ->
         { <<n1, n2>> \in Stamps(clock) \X (1..MaxClock) : n2 \in Stamps(n1) }
    [] tk.kind = "save" \/ (tk.kind = "winstate" /\ FindIndex(snap, tk.id) # 0) ->
         { <<n, n>> : n \in Stamps(clock) }
    [] tk.kind = "saveall" /\ SaveAllApply(snap, ws, 0) # snap ->
         { <<n, n>> : n \in Stamps(clock) }
    [] OTHER -> { <<clock, clock>> }

\* The handler from the point where loadNotes() has returned `snap` up to its
\* next await (the write) or its end.
TaskAfterLoad(tk, snap, ws, now1, now2) ==
  CASE tk.kind = "save" ->
         [tk EXCEPT !.pc = "write", !.local = SaveNoteApply(snap, tk.note, now1, now2)]
    [] tk.kind = "delete" ->
         [tk EXCEPT !.pc = "write", !.local = DeleteNoteApply(snap, tk.id)]
    [] tk.kind = "winstate" ->
         IF FindIndex(snap, tk.id) # 0
         THEN [tk EXCEPT !.pc = "write",
                         !.local = SaveWindowStateApply(snap, tk.id, tk.bounds, now1)]
         ELSE Idle
    [] tk.kind = "saveall" ->
         [tk EXCEPT !.pc = "write", !.local = SaveAllApply(snap, ws, now1)]
    [] OTHER -> Idle

\* generateId(): an identifier that exists nowhere yet
FreshIds == Ids \ usedIds

----------------------------------------------------------------------------
(* Initial state: the app is ready and loadAndDisplayNotes() has been called.  *)
(* Without a file loadNotes() returns [] without any I/O, so the window of a  *)
(* new note is already open when the first event is handled; with a file, the *)
(* read is pending.                                                          *)

NothingSent == [i \in Ids |-> <<>>]

\* the renderer before App has mounted
UiIdle ==
  /\ uiNotes = {}
  /\ uiPinned = {}
  /\ saveTimeouts = [i \in UiIds |-> 0]
  /\ timers = {}
  /\ calls = {}
  /\ answered = {}
  /\ latest = [i \in UiIds |-> 0]
  /\ edits = 0

NoResult == [by |-> "-", raised |-> FALSE, value |-> <<>>]

\* the text of the file is not looked at
DocIdle ==
  /\ docExists = FALSE
  /\ docText = <<>>
  /\ origin = <<>>
  /\ result = NoResult

InitialNote ==
  [id |-> "n1", content |-> "a", x |-> 100, y |-> 100, width |-> 300,
   height |-> 200, created |-> 1, updated |-> 1]

AppInit(events) ==
  /\ fileExists \in BOOLEAN
  /\ fileNotes \in IF fileExists THEN {<<>>, <<InitialNote>>} ELSE {<<>>}
  /\ IF fileExists
     THEN /\ windows = [i \in {} |-> 0]
          /\ tasks = SetToBag({NewTask("startup", "-", NoNote, NoBounds)})
          /\ usedIds = NoteIds(fileNotes)
     ELSE \E id \in Ids :
            /\ windows = CreateNewNote([i \in {} |-> 0], id, NoNote)
            /\ tasks = EmptyBag
            /\ usedIds = {id}
  /\ clock = 1
  /\ quitting = FALSE
  /\ exited = FALSE
  /\ budget = events
  /\ deleted = {}
  /\ owed = {}
  /\ persistCount = 0
  /\ lastOp = [op |-> "init", id |-> "-"]
  /\ unlisted = {}
  /\ sent = NothingSent
  /\ UiIdle

InitWith(events) == AppInit(events) /\ DocIdle

Init == InitWith(MaxOps)

----------------------------------------------------------------------------
(* Steps *)

\* The payloads a renderer sends with save-note: a whole note, or some fields.
\* The created/updated of a whole note are the renderer's own (0: older than any
\* stamp of the main process).
Payloads ==
  { [id |-> i, content |-> c, x |-> b.x, y |-> b.y, width |-> b.width,
     height |-> b.height, created |-> cr, updated |-> cr] :
       i \in Ids, c \in Contents, b \in BoundsSet, cr \in {0} }
  \cup { [id |-> i, content |-> c] : i \in Ids, c \in Contents }

\* An async handler is called: it runs up to `await this.loadNotes()`.  When the
\* file does not exist loadNotes() returns [] without any I/O and the handler
\* goes on, in the same turn of the event loop, up to its write.
Invoke(tk) ==
  /\ Room(1)
  /\ IF fileExists
     THEN /\ tasks' = Started(tk)
          /\ clock' = clock
     ELSE \E now \in StampPairs(tk, <<>>, windows) :
            /\ tasks' = Started(TaskAfterLoad(tk, <<>>, windows, now[1], now[2]))
            /\ clock' = now[2]

UserEvent == Running /\ budget > 0 /\ budget' = budget - 1

\* ipcMain.handle('save-note')
IpcSaveNote(note) ==
  /\ UserEvent
  /\ OpenIds # {}
  /\ Invoke(NewTask("save", note.id, note, NoBounds))
  /\ usedIds' = usedIds \cup {note.id}
  /\ deleted' = deleted \ {note.id}
  /\ owed' = owed \ {note.id}
  /\ lastOp' = NoOp
  /\ UNCHANGED others
  /\ UNCHANGED <<fileExists, fileNotes, windows, quitting, exited, persistCount>>

\* ipcMain.handle('delete-note')
IpcDeleteNote(noteId) ==
  /\ UserEvent
  /\ OpenIds # {}
  /\ Invoke(NewTask("delete", noteId, NoNote, NoBounds))
  /\ owed' = owed \ {noteId}
  /\ lastOp' = NoOp
  /\ UNCHANGED others
  /\ UNCHANGED <<fileExists, fileNotes, windows, usedIds, quitting, exited,
                 deleted, persistCount>>

\* ipcMain.handle('create-new-note'), and the New Note menu item
IpcCreateNewNote(noteId) ==
  /\ UserEvent
  /\ noteId \in FreshIds
  /\ windows' = CreateNewNote(windows, noteId, NoNote)
  /\ usedIds' = usedIds \cup {noteId}
  /\ lastOp' = NoOp
  /\ UNCHANGED others
  /\ UNCHANGED <<fileExists, fileNotes, tasks, clock, quitting, exited, deleted,
                 owed, persistCount>>

\* the 'moved' / 'resized' handlers: saveWindowState(noteId, window) reads
\* window.getBounds() before its first await
WindowMoved(noteId, b) ==
  /\ UserEvent
  /\ noteId \in OpenIds
  /\ b # windows[noteId].bounds
  /\ windows' = [windows EXCEPT ![noteId].bounds = b]
  /\ Invoke(NewTask("winstate", noteId, NoNote, b))
  /\ owed' = IF noteId \in NoteIds(LoadNotes) /\ ~InFlight("delete", noteId)
             THEN owed \cup {noteId}
             ELSE owed \ {noteId}
  /\ lastOp' = NoOp
  /\ UNCHANGED others
  /\ UNCHANGED <<fileExists, fileNotes, usedIds, quitting, exited, deleted,
                 persistCount>>

\* a window is closed by the user (role 'close') or by app.quit()
CloseWindow(noteId) ==
  /\ Running
  /\ noteId \in OpenIds
  /\ IF quitting THEN budget' = budget ELSE budget > 0 /\ budget' = budget - 1
  /\ windows' = CloseWindowIn(windows, noteId)
  /\ owed' = owed \ {noteId}
  /\ lastOp' = NoOp
  /\ UNCHANGED others
  /\ UNCHANGED <<fileExists, fileNotes, tasks, clock, usedIds, quitting, exited,
                 deleted, persistCount>>

\* window.on('closed')
ClosedEvent(noteId) ==
  /\ Running
  /\ noteId \in DOMAIN windows
  /\ windows[noteId].state = "destroyed"
  /\ windows' = ClosedHandler(windows, noteId)
  /\ lastOp' = [op |-> "closed", id |-> noteId]
  /\ UNCHANGED others
  /\ UNCHANGED <<fileExists, fileNotes, tasks, clock, usedIds, quitting, exited,
                 budget, deleted, owed, persistCount>>

\* app.on('activate'): a new note when no window is left
Activate(noteId) ==
  /\ UserEvent
  /\ OpenIds = {}
  /\ \A w \in unlisted : w.state # "open"
  /\ noteId \in FreshIds
  /\ windows' = CreateNewNote(windows, noteId, NoNote)
  /\ usedIds' = usedIds \cup {noteId}
  /\ lastOp' = NoOp
  /\ UNCHANGED others
  /\ UNCHANGED <<fileExists, fileNotes, tasks, clock, quitting, exited, deleted,
                 owed, persistCount>>

\* the read issued by loadNotes() finishes: JSON.parse(data)
LoadStep(tk) ==
  /\ Running
  /\ tk \in Busy
  /\ tk.pc = "load"
  /\ tasks' = Advanced(tk, [tk EXCEPT !.pc = "modify", !.local = LoadNotes])
  /\ lastOp' = NoOp
  /\ UNCHANGED others
  /\ UNCHANGED <<fileExists, fileNotes, windows, clock, usedIds, quitting, exited,
                 budget, deleted, owed, persistCount>>

\* saveNote / deleteNote / saveWindowState / saveAllNotes resume after the load
\* and run up to `await this.saveNotes(...)`
ModifyStep(tk) ==
  /\ Running
  /\ tk \in Busy
  /\ tk.pc = "modify"
  /\ tk.kind # "startup"
  /\ \E now \in StampPairs(tk, tk.local, windows) :
       /\ tasks' = Advanced(tk, TaskAfterLoad(tk, tk.local, windows, now[1], now[2]))
       /\ clock' = now[2]
  /\ lastOp' = NoOp
  /\ UNCHANGED others
  /\ UNCHANGED <<fileExists, fileNotes, windows, usedIds, quitting, exited, budget,
                 deleted, owed, persistCount>>

\* loadAndDisplayNotes resumes after the load
StartupStep(tk, noteId) ==
  /\ Running
  /\ tk \in Busy
  /\ tk.pc = "modify"
  /\ tk.kind = "startup"
  /\ IF Len(tk.local) = 0
     THEN /\ noteId \in FreshIds
          /\ windows' = CreateNewNote(windows, noteId, NoNote)
          /\ usedIds' = usedIds \cup {noteId}
     ELSE /\ noteId = tk.local[1].id
          /\ windows' = DisplayNotes(windows, tk.local, 1)
          /\ usedIds' = usedIds
  /\ unlisted' = unlisted \cup Overwritten(windows, tk.local)
  /\ tasks' = Advanced(tk, Idle)
  /\ lastOp' = [op |-> "displayed", id |-> noteId]
  /\ UNCHANGED <<sent, uiVars, docVars>>
  /\ UNCHANGED <<fileExists, fileNotes, clock, quitting, exited, budget, deleted,
                 owed, persistCount>>

DoneOp(tk, closes) ==
  CASE tk.kind = "save" -> "save-done"
    [] tk.kind = "delete" -> IF closes THEN "delete-closed" ELSE "delete-done"
    [] tk.kind = "winstate" -> "winstate-done"
    [] OTHER -> "saveall-done"

\* the write issued by saveNotes() finishes and the handler runs to its end
WriteDone(tk) ==
  /\ Running
  /\ tk \in Busy
  /\ tk.pc = "write"
  /\ LET isDelete == tk.kind = "delete"
         ws == IF isDelete THEN CloseIfOpen(windows, tk.id) ELSE windows
     IN /\ fileExists' = TRUE
        /\ fileNotes' = tk.local
        /\ windows' = ws
        /\ tasks' = Advanced(tk, Idle)
        /\ deleted' = IF isDelete /\ ~InFlight("save", tk.id)
                      THEN deleted \cup {tk.id}
                      ELSE deleted
        /\ owed' = IF ws # windows THEN owed \ {tk.id} ELSE owed
        /\ persistCount' = IF tk.kind = "saveall" THEN persistCount + 1
                           ELSE persistCount
        /\ lastOp' = [op |-> DoneOp(tk, ws # windows), id |-> tk.id]
  /\ UNCHANGED others
  /\ UNCHANGED <<clock, usedIds, quitting, exited, budget>>

SaveAllTask ==
  LET tk == NewTask("saveall", "-", NoNote, NoBounds) IN
  IF fileExists THEN tk ELSE TaskAfterLoad(tk, <<>>, windows, clock, clock)

\* The Quit menu item: this.saveAllNotes(); app.quit(), and app.quit() emits
\* 'before-quit', whose handler calls this.saveAllNotes() again.
QuitMenu ==
  /\ UserEvent
  /\ ~quitting
  /\ Room(2)
  /\ tasks' = tasks (+) SetToBag({SaveAllTask}) (+) SetToBag({SaveAllTask})
  /\ quitting' = TRUE
  /\ lastOp' = [op |-> "quit-menu", id |-> "-"]
  /\ UNCHANGED others
  /\ UNCHANGED <<fileExists, fileNotes, windows, clock, usedIds, exited, deleted,
                 owed, persistCount>>

\* app.quit() from anywhere else (role 'quit', the dock): 'before-quit'
BeforeQuit ==
  /\ UserEvent
  /\ ~quitting
  /\ Room(1)
  /\ tasks' = Started(SaveAllTask)
  /\ quitting' = TRUE
  /\ lastOp' = [op |-> "before-quit", id |-> "-"]
  /\ UNCHANGED others
  /\ UNCHANGED <<fileExists, fileNotes, windows, clock, usedIds, exited, deleted,
                 owed, persistCount>>

\* all windows are closed after app.quit(): the process terminates, whatever
\* handlers are still waiting for their I/O
Exit ==
  /\ Running
  /\ quitting
  /\ DOMAIN windows = {}
  /\ unlisted = {}
  /\ exited' = TRUE
  /\ tasks' = EmptyBag
  /\ lastOp' = NoOp
  /\ UNCHANGED others
  /\ UNCHANGED <<fileExists, fileNotes, windows, clock, usedIds, quitting, budget,
                 deleted, owed, persistCount>>

Next ==
  \/ \E note \in Payloads : IpcSaveNote(note)
  \/ \E id \in Ids : IpcDeleteNote(id)
  \/ \E id \in Ids : IpcCreateNewNote(id)
  \/ \E id \in Ids, b \in BoundsSet : WindowMoved(id, b)
  \/ \E id \in Ids : CloseWindow(id)
  \/ \E id \in Ids : ClosedEvent(id)
  \/ \E id \in Ids : Activate(id)
  \/ \E tk \in Busy : LoadStep(tk)
  \/ \E tk \in Busy : ModifyStep(tk)
  \/ \E tk \in Busy, id \in Ids : StartupStep(tk, id)
  \/ \E tk \in Busy : WriteDone(tk)
  \/ QuitMenu
  \/ BeforeQuit
  \/ Exit

Spec == Init /\ [][Next]_vars

\* The event loop runs every continuation whose I/O has finished, and delivers
\* the 'closed' event of every destroyed window.
Fairness ==
  /\ WF_vars(\E tk \in Busy : LoadStep(tk))
  /\ WF_vars(\E tk \in Busy : ModifyStep(tk))
  /\ WF_vars(\E tk \in Busy, id \in Ids : StartupStep(tk, id))
  /\ WF_vars(\E tk \in Busy : WriteDone(tk))
  /\ \A id \in Ids : WF_vars(ClosedEvent(id))

\* the same system with fewer external events, for the properties of progress
LiveInit == InitWith(MaxLiveOps)

LiveSpec == LiveInit /\ [][Next]_vars /\ Fairness

----------------------------------------------------------------------------
(* Failing writes.  fs.promises.writeFile opens the file for writing, which   *)
(* empties it, and then writes the text.  It can fail before anything has    *)
(* been touched (no permission) or after the file was emptied (disk full,    *)
(* I/O error); saveNotes catches the error and logs it.                      *)

\* what a failed write can leave
WriteFailures == {"untouched", "truncated"}

\* the write issued by saveNotes() fails: the catch logs, and the handler runs
\* to its end as after a write that succeeded.  A truncated file is one that
\* loadNotes reads as [].
WriteFails(tk, left) ==
  /\ Running
  /\ tk \in Busy
  /\ tk.pc = "write"
  /\ IF left = "truncated"
     THEN fileExists' = TRUE /\ fileNotes' = <<>>
     ELSE UNCHANGED <<fileExists, fileNotes>>
  /\ windows' = IF tk.kind = "delete" THEN CloseIfOpen(windows, tk.id) ELSE windows
  /\ tasks' = Advanced(tk, Idle)
  /\ owed' = IF windows' # windows THEN owed \ {tk.id} ELSE owed
  /\ lastOp' = [op |-> "write-failed", id |-> tk.id]
  /\ UNCHANGED others
  /\ UNCHANGED <<clock, usedIds, quitting, exited, budget, deleted, persistCount>>

FaultNext ==
  \/ Next
  \/ \E tk \in Busy, left \in WriteFailures : WriteFails(tk, left)

FaultSpec == Init /\ [][FaultNext]_vars

----------------------------------------------------------------------------
(* The page of a window.  createNewNote registers the 'moved', 'resized' and  *)
(* 'closed' handlers and a one-time 'did-finish-load' listener on a window   *)
(* that is already on screen; the page finishes loading later, and again     *)
(* after every reload (View > Reload).                                       *)

\* the one-time listener has run: 'note-id' has been sent
Loaded(noteId) == sent[noteId] # <<>>

\* what the 'did-finish-load' listener sends
LoadMessages(existing) ==
  IF existing THEN <<"note-id", "load-note">> ELSE <<"note-id">>

\* webContents emits 'did-finish-load'; a listener registered with once() is
\* removed when it has run
DidFinishLoad(noteId) ==
  /\ Running
  /\ noteId \in OpenIds
  /\ sent' = IF Loaded(noteId) THEN sent
             ELSE [sent EXCEPT ![noteId] = LoadMessages(windows[noteId].existing)]
  /\ lastOp' = [op |-> "did-finish-load", id |-> noteId]
  /\ UNCHANGED <<uiVars, docVars, unlisted>>
  /\ UNCHANGED <<fileExists, fileNotes, windows, tasks, clock, usedIds, quitting,
                 exited, budget, deleted, owed, persistCount>>

WinNext ==
  \/ Next
  \/ \E id \in Ids : DidFinishLoad(id)

WinSpec == Init /\ [][WinNext]_vars

----------------------------------------------------------------------------
(* The renderer (src/unnamed/part_001, component App) and the channels of     *)
(* src/src/preload.ts.  Every call of window.electronAPI is an                *)
(* ipcRenderer.invoke on a channel; the promise resolves with the result of  *)
(* the handler that ipcMain.handle registered for the channel and rejects    *)
(* when there is none.  A request that has a handler is handled here in one  *)
(* step; how handlers overlap is the subject of Spec.                        *)

\* setupIpcHandlers: the channels with a handler
Handlers == {"save-note", "delete-note", "get-note", "create-new-note"}

\* the promise of ipcRenderer.invoke(channel, ...)
Outcome(channel) == IF channel \in Handlers THEN "resolved" ELSE "rejected"

\* the channels of the exposed methods that App does not call itself
OtherChannels == {"create-note", "save-all", "get-note"}

Call(channel, id, value, seen) ==
  [channel |-> channel, id |-> id, value |-> value, seen |-> seen]

\* handleCreateNote: the note sent with save-note
NewUiNote(id) ==
  [id |-> id, content |-> "", x |-> 100, y |-> 100, width |-> 300, height |-> 200,
   created |-> 0, updated |-> 0, alwaysOnTop |-> FALSE]

\* a debouncedSave that cancels nothing
ClearTimeoutNever(ts, tid) == ts

\* clearTimeout(tid); no entry (0) and a timer that has fired cancel nothing
ClearTimeout(ts, tid) == {t \in ts : t.edit # tid}

\* debouncedSave(note), called in a render that saw saveTimeouts[note.id] = seen:
\* the timers afterwards
DebouncedSave(ts, seen, id, e) ==
  ClearTimeout(ts, seen) \cup {[id |-> id, edit |-> e]}

\* useEffect on mount: loadAllNotes() has called window.electronAPI.loadNotes()
UiInit ==
  /\ fileExists = FALSE
  /\ fileNotes = <<>>
  /\ windows = CreateNewNote([i \in {} |-> 0], "n1", NoNote)
  /\ tasks = EmptyBag
  /\ usedIds = {"n1"}
  /\ clock = 1
  /\ quitting = FALSE
  /\ exited = FALSE
  /\ budget = MaxUiOps
  /\ deleted = {}
  /\ owed = {}
  /\ persistCount = 0
  /\ lastOp = [op |-> "init", id |-> "-"]
  /\ unlisted = {}
  /\ sent = NothingSent
  /\ uiNotes = {}
  /\ uiPinned = {}
  /\ saveTimeouts = [i \in UiIds |-> 0]
  /\ timers = {}
  /\ calls = {Call("load-notes", "-", FALSE, 0)}
  /\ answered = {}
  /\ latest = [i \in UiIds |-> 0]
  /\ edits = 0
  /\ DocIdle

\* what no step of the renderer changes
UiFrame ==
  UNCHANGED <<tasks, quitting, exited, deleted, owed, persistCount, sent, docVars,
              unlisted>>

\* a request is sent (one request of a kind at a time)
Request(c) ==
  /\ c \notin calls
  /\ calls' = calls \cup {c}
  /\ lastOp' = NoOp
  /\ UiFrame
  /\ UNCHANGED <<fileExists, fileNotes, windows, clock, uiNotes, uiPinned,
                 saveTimeouts, timers, answered, latest, edits>>

\* handleCreateNote up to its await
UiCreateNote(id) ==
  /\ UserEvent
  /\ id \in UiIds \ usedIds
  /\ usedIds' = usedIds \cup {id}
  /\ Request(Call("save-note", id, FALSE, 0))

\* handleDeleteNote up to its await
UiDeleteNote(id) ==
  /\ UserEvent
  /\ id \in uiNotes
  /\ usedIds' = usedIds
  /\ Request(Call("delete-note", id, FALSE, 0))

\* handleToggleAlwaysOnTop up to its await
UiToggle(id) ==
  /\ UserEvent
  /\ id \in uiNotes
  /\ usedIds' = usedIds
  /\ Request(Call("toggle-always-on-top", id, id \notin uiPinned, saveTimeouts[id]))

\* handleOpenNoteWindow up to its await
UiOpenWindow(id) ==
  /\ UserEvent
  /\ id \in uiNotes
  /\ usedIds' = usedIds
  /\ Request(Call("open-note-window", id, FALSE, 0))

\* any other exposed method is called
UiInvoke(channel) ==
  /\ UserEvent
  /\ usedIds' = usedIds
  /\ Request(Call(channel, "-", FALSE, 0))

\* the title, colour or content of the selected note is edited:
\* handleUpdateNote -> debouncedSave
UiEdit(id) ==
  /\ UserEvent
  /\ id \in uiNotes
  /\ edits' = edits + 1
  /\ latest' = [latest EXCEPT ![id] = edits']
  /\ timers' = DebouncedSave(timers, saveTimeouts[id], id, edits')
  /\ saveTimeouts' = [saveTimeouts EXCEPT ![id] = edits']
  /\ lastOp' = NoOp
  /\ UiFrame
  /\ UNCHANGED <<fileExists, fileNotes, windows, clock, usedIds, uiNotes, uiPinned,
                 calls, answered>>

\* a debounce timer fires: its callback runs up to `await updateNote(note)`
TimerFires(t) ==
  /\ Running
  /\ t \in timers
  /\ timers' = timers \ {t}
  /\ calls' = calls \cup {Call("update-note", t.id, FALSE, t.edit)}
  /\ lastOp' = [op |-> "timer-fired", id |-> t.id, edit |-> t.edit]
  /\ UiFrame
  /\ UNCHANGED <<fileExists, fileNotes, windows, clock, usedIds, budget, uiNotes,
                 uiPinned, saveTimeouts, answered, latest, edits>>

\* the handler of a request runs: what it does to the file and the windows
Handled(c) ==
  CASE c.channel = "save-note" ->
         \E now \in StampPairs(NewTask("save", c.id, NewUiNote(c.id), NoBounds),
                               LoadNotes, windows) :
           /\ fileExists' = TRUE
           /\ fileNotes' = SaveNoteApply(LoadNotes, NewUiNote(c.id), now[1], now[2])
           /\ clock' = now[2]
           /\ windows' = windows
    [] c.channel = "delete-note" ->
         /\ fileExists' = TRUE
         /\ fileNotes' = DeleteNoteApply(LoadNotes, c.id)
         /\ clock' = clock
         /\ windows' = CloseIfOpen(windows, c.id)
    [] OTHER ->
         UNCHANGED <<fileExists, fileNotes, clock, windows>>

\* the function that awaited the request goes on after a resolved promise
Resolved(c) ==
  CASE c.channel = "load-notes" ->
         /\ uiNotes' = NoteIds(LoadNotes)
         /\ UNCHANGED <<uiPinned, saveTimeouts, timers, latest, edits>>
    [] c.channel = "save-note" ->
         /\ uiNotes' = uiNotes \cup {c.id}
         /\ UNCHANGED <<uiPinned, saveTimeouts, timers, latest, edits>>
    [] c.channel = "delete-note" ->
         /\ uiNotes' = uiNotes \ {c.id}
         /\ UNCHANGED <<uiPinned, saveTimeouts, timers, latest, edits>>
    [] c.channel = "update-note" ->
         /\ saveTimeouts' = [saveTimeouts EXCEPT ![c.id] = 0]
         /\ UNCHANGED <<uiNotes, uiPinned, timers, latest, edits>>
    [] c.channel = "toggle-always-on-top" ->
         /\ uiPinned' = IF c.value THEN uiPinned \cup {c.id} ELSE uiPinned \ {c.id}
         /\ edits' = edits + 1
         /\ latest' = [latest EXCEPT ![c.id] = edits']
         /\ timers' = DebouncedSave(timers, c.seen, c.id, edits')
         /\ saveTimeouts' = [saveTimeouts EXCEPT ![c.id] = edits']
         /\ uiNotes' = uiNotes
    [] OTHER ->
         UNCHANGED <<uiNotes, uiPinned, saveTimeouts, timers, latest, edits>>

\* the promise of a request settles; a rejection ends in the caller's catch
UiRespond(c) ==
  /\ Running
  /\ c \in calls
  /\ calls' = calls \ {c}
  /\ answered' = answered \cup {[channel |-> c.channel, outcome |-> Outcome(c.channel)]}
  /\ IF Outcome(c.channel) = "resolved"
     THEN Handled(c) /\ Resolved(c)
     ELSE UNCHANGED <<fileExists, fileNotes, clock, windows, uiNotes, uiPinned,
                      saveTimeouts, timers, latest, edits>>
  /\ lastOp' = [op |-> "answered", id |-> c.id]
  /\ UiFrame
  /\ UNCHANGED <<usedIds, budget>>

UiNext ==
  \/ \E id \in UiIds : UiCreateNote(id)
  \/ \E id \in UiIds : UiDeleteNote(id)
  \/ \E id \in UiIds : UiToggle(id)
  \/ \E id \in UiIds : UiOpenWindow(id)
  \/ \E channel \in OtherChannels : UiInvoke(channel)
  \/ \E id \in UiIds : UiEdit(id)
  \/ \E t \in timers : TimerFires(t)
  \/ \E c \in calls : UiRespond(c)

UiSpec == UiInit /\ [][UiNext]_vars

\* a timer fires when its delay has passed, and every request is answered
UiFairness ==
  /\ WF_vars(\E t \in timers : TimerFires(t))
  /\ WF_vars(\E c \in calls : UiRespond(c))

UiLiveSpec == UiSpec /\ UiFairness

----------------------------------------------------------------------------
(* Reading the notes file.  saveNotes writes JSON.stringify(notes, null, 2);  *)
(* loadNotes and loadNotesSync read the text and JSON.parse it inside a      *)
(* try / catch.  The text is a sequence of tokens; a write that the process  *)
(* did not live to finish (Exit with a write in flight) leaves a beginning   *)
(* of the text.                                                              *)

\* the notes the documents are made of
DocNotes ==
  { InitialNote,
    [id |-> "n2", content |-> "b", x |-> 250, y |-> 300, width |-> 400,
     height |-> 250, created |-> 2, updated |-> 2] }

\* the arrays of at most n notes
RECURSIVE NoteSeqs(_)
NoteSeqs(n) ==
  IF n = 0 THEN {<<>>}
  ELSE NoteSeqs(n - 1) \cup
       { Append(q, d) : q \in {r \in NoteSeqs(n - 1) : Len(r) = n - 1}, d \in DocNotes }

Tok(kind, v) == [t |-> kind, v |-> v]

\* a text that lists the notes last to first
StringifyReversed(notes) ==
  <<Tok("[", NoNote)>> \o [i \in 1..Len(notes) |-> Tok("obj", notes[Len(notes) + 1 - i])]
                       \o <<Tok("]", NoNote)>>

\* JSON.stringify(notes, null, 2)
Stringify(notes) ==
  <<Tok("[", NoNote)>> \o [i \in 1..Len(notes) |-> Tok("obj", notes[i])]
                       \o <<Tok("]", NoNote)>>

WellFormed(text) ==
  /\ Len(text) >= 2
  /\ text[1].t = "["
  /\ text[Len(text)].t = "]"
  /\ \A i \in 2..(Len(text) - 1) : text[i].t = "obj"

\* JSON.parse(data): the array, or a SyntaxError thrown
JsonParse(text) ==
  IF WellFormed(text)
  THEN [raised |-> FALSE, value |-> [i \in 1..(Len(text) - 2) |-> text[i + 1].v]]
  ELSE [raised |-> TRUE, value |-> <<>>]

\* a load without the try / catch: the error reaches the caller
Rethrow(r) == r

\* try { ... } catch (error) { console.error(...) } return []
TryCatch(r) == IF r.raised THEN [raised |-> FALSE, value |-> <<>>] ELSE r

\* the body of loadNotes / loadNotesSync
ReadNotes(exists, text) ==
  IF exists THEN TryCatch(JsonParse(text))
  ELSE [raised |-> FALSE, value |-> <<>>]

\* the whole of the last array written is in the file
Intact == docExists /\ Len(docText) = Len(origin) + 2

LoadInit ==
  /\ AppInit(0)
  /\ "n1" \in DOMAIN windows
  /\ docExists \in BOOLEAN
  /\ origin \in IF docExists THEN NoteSeqs(MaxDocLen) ELSE {<<>>}
  /\ docText \in IF docExists
                 THEN { SubSeq(Stringify(origin), 1, k) : k \in 0..(Len(origin) + 2) }
                 ELSE {<<>>}
  /\ result = NoResult

\* everything but the text of the file, the outcome of reading it and the mark
\* of the last write
appVars ==
  <<fileExists, fileNotes, windows, tasks, clock, usedIds, quitting, exited, budget,
    deleted, owed, persistCount, sent, uiVars, unlisted>>

\* await this.loadNotes()
LoadAsync ==
  /\ result' = [by |-> "loadNotes"] @@ ReadNotes(docExists, docText)
  /\ UNCHANGED <<docExists, docText, origin, lastOp, appVars>>

\* this.loadNotesSync()
LoadSync ==
  /\ result' = [by |-> "loadNotesSync"] @@ ReadNotes(docExists, docText)
  /\ UNCHANGED <<docExists, docText, origin, lastOp, appVars>>

\* saveNotes(notes): the write finishes
WriteDoc(notes) ==
  /\ docExists' = TRUE
  /\ docText' = Stringify(notes)
  /\ origin' = notes
  /\ result' = NoResult
  /\ lastOp' = [op |-> "persisted", id |-> "-"]
  /\ UNCHANGED appVars

LoadNext ==
  \/ LoadAsync
  \/ LoadSync
  \/ \E notes \in NoteSeqs(MaxDocLen) : WriteDoc(notes)

LoadSpec == LoadInit /\ [][LoadNext]_vars

----------------------------------------------------------------------------
(* One run of the application after another, each request handled with no     *)
(* other handler in flight: what the stored notes and the windows opened for *)
(* them come to hold, over the bounds a window can report and the notes a    *)
(* save-note request can carry.                                              *)

\* window.getBounds() also reports a window at the left or top edge of the screen
RunBounds ==
  BoundsSet \cup { [x |-> 0, y |-> 100, width |-> 300, height |-> 200],
                   [x |-> 100, y |-> 0, width |-> 300, height |-> 200] }

\* a save-note request carries whatever note the renderer sends
RunPayloads ==
  Payloads \cup
  { [id |-> i, content |-> "b", x |-> 100, y |-> 100, width |-> w, height |-> h,
     created |-> 0, updated |-> 0] :
       i \in Ids, w \in {150, 300}, h \in {80, 200} }

\* the app is ready: loadAndDisplayNotes() is about to run
RunInit ==
  /\ AppInit(MaxRunOps)
  /\ fileExists
  /\ DocIdle

\* whenReady: loadAndDisplayNotes()
RunLaunch(noteId) ==
  /\ Running
  /\ Busy # {}
  /\ IF Len(LoadNotes) = 0
     THEN /\ noteId \in FreshIds
          /\ windows' = CreateNewNote(windows, noteId, NoNote)
          /\ usedIds' = usedIds \cup {noteId}
     ELSE /\ noteId = LoadNotes[1].id
          /\ windows' = DisplayNotes(windows, LoadNotes, 1)
          /\ usedIds' = usedIds
  /\ tasks' = EmptyBag
  /\ lastOp' = [op |-> "launched", id |-> "-"]
  /\ UNCHANGED others
  /\ UNCHANGED <<fileExists, fileNotes, clock, quitting, exited, budget, deleted,
                 owed, persistCount>>

\* save-note, from the request to the end of its write
RunSaveNote(note) ==
  /\ UserEvent
  /\ Busy = {}
  /\ OpenIds # {}
  /\ \E now \in StampPairs(NewTask("save", note.id, note, NoBounds), LoadNotes, windows) :
       /\ fileNotes' = SaveNoteApply(LoadNotes, note, now[1], now[2])
       /\ clock' = now[2]
  /\ fileExists' = TRUE
  /\ usedIds' = usedIds \cup {note.id}
  /\ lastOp' = [op |-> "save-done", id |-> note.id]
  /\ UNCHANGED others
  /\ UNCHANGED <<windows, tasks, quitting, exited, deleted, owed, persistCount>>

\* a window is moved or resized: saveWindowState, to the end of its write
RunMoved(noteId, b) ==
  /\ UserEvent
  /\ Busy = {}
  /\ noteId \in OpenIds
  /\ b # windows[noteId].bounds
  /\ windows' = [windows EXCEPT ![noteId].bounds = b]
  /\ IF FindIndex(LoadNotes, noteId) # 0
     THEN \E now \in Stamps(clock) :
            /\ fileNotes' = SaveWindowStateApply(LoadNotes, noteId, b, now)
            /\ fileExists' = TRUE
            /\ clock' = now
     ELSE UNCHANGED <<fileNotes, fileExists, clock>>
  /\ lastOp' = [op |-> "winstate-done", id |-> noteId]
  /\ UNCHANGED others
  /\ UNCHANGED <<tasks, usedIds, quitting, exited, deleted, owed, persistCount>>

\* the application is quit, saveAllNotes writes, the windows close, and the
\* application is started again
RunAgain ==
  /\ UserEvent
  /\ Busy = {}
  /\ \E now \in Stamps(clock) :
       /\ fileNotes' = SaveAllApply(LoadNotes, windows, now)
       /\ clock' = now
  /\ fileExists' = TRUE
  /\ windows' = [i \in {} |-> 0]
  /\ tasks' = SetToBag({NewTask("startup", "-", NoNote, NoBounds)})
  /\ lastOp' = [op |-> "before-quit", id |-> "-"]
  /\ UNCHANGED others
  /\ UNCHANGED <<usedIds, quitting, exited, deleted, owed, persistCount>>

RunNext ==
  \/ \E id \in Ids : RunLaunch(id)
  \/ \E note \in RunPayloads : RunSaveNote(note)
  \/ \E id \in Ids, b \in RunBounds : RunMoved(id, b)
  \/ RunAgain

RunSpec == RunInit /\ [][RunNext]_vars

----------------------------------------------------------------------------
(* The windows that lost their entry *)

\* A window whose entry was overwritten by this.windows.set, or deleted by the
\* 'closed' handler of another window of the same note, stays on screen with
\* its own handlers, which were bound to its noteId when it was created.

RegInit == InitWith(MaxRegOps)

\* such a window is closed by the user (role 'close') or by app.quit()
UnlistedClose(w) ==
  /\ Running
  /\ w \in unlisted
  /\ w.state = "open"
  /\ IF quitting THEN budget' = budget ELSE budget > 0 /\ budget' = budget - 1
  /\ unlisted' = (unlisted \ {w}) \cup {[w EXCEPT !.state = "destroyed"]}
  /\ lastOp' = NoOp
  /\ UNCHANGED <<sent, uiVars, docVars>>
  /\ UNCHANGED <<fileExists, fileNotes, windows, tasks, clock, usedIds, quitting,
                 exited, deleted, owed, persistCount>>

\* window.on('closed') of such a window: this.windows.delete(noteId) removes
\* whatever entry the identifier has now
UnlistedClosed(w) ==
  /\ Running
  /\ w \in unlisted
  /\ w.state = "destroyed"
  /\ windows' = ClosedHandler(windows, w.id)
  /\ unlisted' = (unlisted \ {w}) \cup Overwritten(windows, <<[id |-> w.id]>>)
  /\ lastOp' = [op |-> "closed-unlisted", id |-> w.id]
  /\ UNCHANGED <<sent, uiVars, docVars>>
  /\ UNCHANGED <<fileExists, fileNotes, tasks, clock, usedIds, quitting, exited,
                 budget, deleted, owed, persistCount>>

\* window.on('moved') / window.on('resized') of such a window
UnlistedMoved(w, b) ==
  /\ UserEvent
  /\ w \in unlisted
  /\ w.state = "open"
  /\ Invoke(NewTask("winstate", w.id, NoNote, b))
  /\ lastOp' = NoOp
  /\ UNCHANGED others
  /\ UNCHANGED <<fileExists, fileNotes, windows, usedIds, quitting, exited, deleted,
                 owed, persistCount>>

RegNext ==
  \/ Next
  \/ \E w \in unlisted : UnlistedClose(w)
  \/ \E w \in unlisted : UnlistedClosed(w)
  \/ \E w \in unlisted, b \in BoundsSet : UnlistedMoved(w, b)

RegSpec == RegInit /\ [][RegNext]_vars

----------------------------------------------------------------------------
(* Properties *)

Quiescent == tasks = EmptyBag

StoredIds == NoteIds(LoadNotes)

StoredNote(id) == LoadNotes[FindIndex(LoadNotes, id)]

\* C1: once delete-note(id) has completed, get-note(id) returns undefined until
\* a save-note for id is issued, whatever handlers were in flight when the
\* delete completed.
C1_DeletedStaysAbsent ==
  \A id \in deleted : GetNote(id) = <<>>

\* C2: a note saved under an identifier that is not in the collection is read
\* back by get-note right after the save completes with the fields it was sent
\* with, and with created and updated both set and equal.
C2_NewNoteReadBack ==
  [][ \A tk \in Busy :
        ( /\ tk.kind = "save"
          /\ tk.pc = "write"
          /\ tk.id \notin StoredIds
          /\ lastOp' = [op |-> "save-done", id |-> tk.id]
          /\ tasks' = Advanced(tk, Idle) )
        => /\ Len(GetNote(tk.id)') = 1
           /\ LET r == GetNote(tk.id)'[1] IN
                /\ \A f \in (DOMAIN tk.note) \ {"created", "updated"} :
                     f \in DOMAIN r /\ r[f] = tk.note[f]
                /\ {"created", "updated"} \subseteq DOMAIN r
                /\ r.created = r.updated ]_vars

\* C3: the updated stamp of a stored note never decreases from one state of the
\* file to the next.
C3_UpdatedNeverDecreases ==
  [][ \A id \in StoredIds :
        id \in StoredIds' => StoredNote(id)'.updated >= StoredNote(id).updated ]_vars

\* C4: the created stamp of a stored note never changes while the note exists.
C4_CreatedImmutable ==
  [][ \A id \in StoredIds :
        id \in StoredIds' => StoredNote(id)'.created = StoredNote(id).created ]_vars

\* C5: the stored collection never holds two records with the same identifier.
C5_UniqueIds ==
  \A i, j \in 1..Len(LoadNotes) :
    i # j => LoadNotes[i].id # LoadNotes[j].id

\* a save-note of an identifier the file already holds is about to rewrite a
\* file of two notes
C5_Witness ==
  /\ Len(LoadNotes) = 2
  /\ \E tk \in Busy :
       /\ tk.kind = "save"
       /\ tk.pc = "write"
       /\ tk.id \in StoredIds
       /\ Len(tk.local) = 2

\* the handlers that have loaded the file and not yet written it back
Rewriting ==
  { tk \in Busy : tk.kind \in {"save", "delete", "winstate"}
                  /\ tk.pc \in {"modify", "write"} }

\* C6: the load-modify-write of one save-note, delete-note or move/resize
\* write-back never overlaps the load or the write of another: at most one of
\* them is between its load and its write.
C6_OneAtATime ==
  \A tk1, tk2 \in Rewriting : tk1 = tk2 /\ CopiesIn(tk1, tasks) = 1

\* C7: a delete-note(id) running while the window of id is registered and not
\* destroyed leads to the registry holding no entry for id.
C7_DeleteClosesWindow ==
  \A id \in Ids :
    (id \in OpenIds /\ InFlight("delete", id)) ~> (id \notin DOMAIN windows)

\* delete-note has just closed the window of its note; the 'closed' event is pending
C7_Witness ==
  /\ lastOp.op = "delete-closed"
  /\ lastOp.id \in DOMAIN windows
  /\ windows[lastOp.id].state = "destroyed"

\* C8: the 'closed' handler removes the closed window's identifier from the
\* registry and changes neither the file nor any other registry entry.
C8_ClosedFrame ==
  [][ lastOp'.op = "closed" =>
        /\ fileExists' = fileExists
        /\ fileNotes' = fileNotes
        /\ DOMAIN windows' = (DOMAIN windows) \ {lastOp'.id}
        /\ \A i \in DOMAIN windows' : windows'[i] = windows[i] ]_vars

\* the window of a stored note has been closed and its 'closed' handler has run
\* while another window is registered
C8_Witness ==
  /\ lastOp.op = "closed"
  /\ lastOp.id \in StoredIds
  /\ DOMAIN windows # {}

\* C9: after the window of a stored note was moved or resized, and no later
\* save-note or delete-note was issued for it, the stored note has the window's
\* bounds once the handlers in flight have finished.
C9_MoveIsPersisted ==
  Quiescent =>
    \A id \in (owed \cap OpenIds) \cap StoredIds :
      HasBounds(StoredNote(id), windows[id].bounds)

ShutdownDone == quitting /\ ~InFlight("saveall", "-")

\* C10: on shutdown the collection is written exactly once, and what is written
\* holds the bounds of every open window of a stored note.
C10_PersistOnceAtShutdown ==
  /\ ShutdownDone => persistCount = 1
  /\ lastOp.op = "saveall-done" =>
       \A id \in OpenIds \cap StoredIds :
         HasBounds(StoredNote(id), windows[id].bounds)

\* C11: every window goes Created -> Loaded -> (Moved|Resized)* -> Closed: the
\* identifier, and the note when the window was opened for one, is delivered
\* exactly once, when the page has loaded, and no move or resize of a window is
\* handled before that.
C11_WindowStateMachine ==
  /\ [](\A id \in DOMAIN windows :
          Loaded(id) => sent[id] = LoadMessages(windows[id].existing))
  /\ [][ \A id \in (DOMAIN windows) \cap (DOMAIN windows') :
           windows'[id].bounds # windows[id].bounds => Loaded(id) ]_vars

\* C12: once the 'closed' handler of a window has run, no move/resize
\* write-back for its identifier is written to the file (no window is opened
\* again for an identifier).
C12_NoWriteBackAfterClosed ==
  lastOp.op = "winstate-done" => lastOp.id \in DOMAIN windows

\* C13: every note has at most one save timer pending, and the edit a timer
\* sends when it fires is the last edit made to its note, also when an edit is
\* made while the request of a timer that fired is not answered yet.
C13_DebouncePerNote ==
  /\ \A id \in UiIds : Cardinality({t \in timers : t.id = id}) <= 1
  /\ lastOp.op = "timer-fired" => lastOp.edit = latest[lastOp.id]

\* a note was edited while the request of its timer that fired was not answered
\* yet, and the timer of that edit has fired too
C13_Witness ==
  /\ lastOp.op = "timer-fired"
  /\ \E c \in calls :
       /\ c.channel = "update-note"
       /\ c.id = lastOp.id
       /\ c.seen < lastOp.edit

\* C14: once toggle-always-on-top(id, true) has been requested for a note of
\* the collection, get-note(id) comes to return a record with alwaysOnTop = true.
C14_ToggleIsReflected ==
  \A id \in UiIds :
    (/\ \E c \in calls :
          c.channel = "toggle-always-on-top" /\ c.id = id /\ c.value
     /\ GetNote(id) # <<>>)
    ~> (/\ GetNote(id) # <<>>
        /\ "alwaysOnTop" \in DOMAIN GetNote(id)[1]
        /\ GetNote(id)[1].alwaysOnTop)

\* C15: every request the renderer sends is answered by a registered handler.
C15_EveryRequestHandled ==
  \A a \in answered : a.outcome = "resolved"

\* C16: loadNotes and loadNotesSync raise nothing; they return [] when the file
\* does not exist or its text does not parse, and the array that was written
\* otherwise.
C16_LoadNeverRaises ==
  result.by # "-" =>
    /\ ~result.raised
    /\ result.value = IF Intact THEN origin ELSE <<>>

\* loadNotes has read a file that holds the beginning of an array of notes
C16_Witness ==
  /\ result.by = "loadNotes"
  /\ docExists
  /\ ~Intact
  /\ Len(docText) >= 2
  /\ result.value = <<>>

\* C17: when the write of saveNotes fails, the handler still runs to its end
\* and the file reads as it did before.
C17_FailedWriteChangesNothing ==
  [][ lastOp'.op = "write-failed" => LoadNotes' = LoadNotes ]_vars

\* C18: a save-note whose identifier is in the collection changes, in the
\* file, only the fields its note carries and `updated` in the record of that
\* identifier; the other fields of the record and all other records stay.
C18_SaveFrame ==
  [][ \A tk \in Busy :
        ( /\ tk.kind = "save"
          /\ tk.pc = "write"
          /\ tk.id \in StoredIds
          /\ lastOp' = [op |-> "save-done", id |-> tk.id]
          /\ tasks' = Advanced(tk, Idle) )
        => /\ StoredIds' = StoredIds
           /\ \A id \in StoredIds \ {tk.id} : StoredNote(id)' = StoredNote(id)
           /\ LET old == StoredNote(tk.id)
                  new == StoredNote(tk.id)'
              IN /\ DOMAIN new = (DOMAIN old) \cup (DOMAIN tk.note) \cup {"updated"}
                 /\ \A f \in (DOMAIN tk.note) \ {"updated"} : new[f] = tk.note[f]
                 /\ \A f \in (DOMAIN old) \ ((DOMAIN tk.note) \cup {"updated"}) :
                      new[f] = old[f] ]_vars

\* C19: the window opened at launch for a stored note has the note's x, y,
\* width and height, whatever integers they are; a window opened for no note
\* has the default size.
C19_WindowAtPersistedBounds ==
  lastOp.op = "launched" =>
    /\ \A i \in 1..Len(LoadNotes) :
         BoundsFields \subseteq DOMAIN LoadNotes[i] =>
           /\ LoadNotes[i].id \in DOMAIN windows
           /\ HasBounds(LoadNotes[i], windows[LoadNotes[i].id].bounds)
    /\ \A id \in DOMAIN windows :
         ~windows[id].existing =>
           /\ windows[id].bounds.width = DefaultWidth
           /\ windows[id].bounds.height = DefaultHeight

\* C20: every stored record has width >= 200 and height >= 100, whatever the
\* save-note requests carry.
C20_MinimumSizeStored ==
  \A i \in 1..Len(LoadNotes) :
    /\ "width" \in DOMAIN LoadNotes[i] => LoadNotes[i].width >= MinWidth
    /\ "height" \in DOMAIN LoadNotes[i] => LoadNotes[i].height >= MinHeight

\* C21: a delete-note for an identifier that is not in the collection changes
\* no stored record and closes no window.
C21_DeleteAbsentIsNoOp ==
  [][ \A tk \in Busy :
        ( /\ tk.kind = "delete"
          /\ tk.pc = "write"
          /\ tk.id \notin StoredIds
          /\ lastOp'.op \in {"delete-done", "delete-closed"}
          /\ lastOp'.id = tk.id
          /\ tasks' = Advanced(tk, Idle) )
        => /\ LoadNotes' = LoadNotes
           /\ windows' = windows ]_vars

C23_SavedStays ==
  [][ \A id \in StoredIds :
        ~InFlight("delete", id) => id \in StoredIds' ]_vars

\* C24: the registry holds every window that is on screen, under its note's
\* identifier: an entry appears only with a newly created window, goes only
\* when the 'closed' event of its own window is handled, and no window is left
\* without its entry.
C24_RegistryTracksWindows ==
  [][ /\ unlisted' = {}
      /\ \A id \in DOMAIN windows \ DOMAIN windows' :
           lastOp'.op = "closed" /\ lastOp'.id = id
      /\ \A id \in DOMAIN windows' \ DOMAIN windows :
           windows'[id].state = "open" ]_vars

\* C25: when loadAndDisplayNotes has displayed what it loaded, the registry
\* holds one open window for every note loaded and no other window, or, when
\* nothing was loaded, a single window under an identifier that was never used,
\* and the file is as it was.
C25_StartupWindows ==
  [][ \A tk \in Busy :
        (tk.kind = "startup" /\ tk.pc = "modify" /\ lastOp'.op = "displayed")
        => IF Len(tk.local) > 0
           THEN /\ DOMAIN windows' = NoteIds(tk.local)
                /\ \A id \in NoteIds(tk.local) : windows'[id].state = "open"
           ELSE /\ Cardinality(DOMAIN windows') = 1
                /\ DOMAIN windows' \cap usedIds = {}
                /\ fileExists' = fileExists
                /\ fileNotes' = fileNotes ]_vars

====
